---- MODULE Spec2Model ----
(***************************************************************************)
(* Model of bin/coalesce_parquet.py: the greedy coalescer, the lazy        *)
(* fragment source (directory -> files -> batches), the generator that     *)
(* concatenates each group, and the schema-enforcing parquet sink.         *)
(* The program is single-threaded; pc is the position of the one thread    *)
(* of control inside the chain of generators.                              *)
(***************************************************************************)
EXTENDS Integers, Sequences, FiniteSets, TLC

\* ---- bounds of the model ------------------------------------------------
\* files the glob enumerates
MaxFiles == 2
\* batches in all the files of a pipeline run together
MaxFrags == 3
\* items given to coalesce when it is run on its own
MaxItems == 4
\* rows of one batch
MaxRows == 2
\* max_size, when the caller gives one
MaxM == 2

\* ---- program constants --------------------------------------------------
\* default of the max_size parameter of coalese_parquets
DefaultMaxSize == 2^20

\* ---- schemas and the pyarrow operations the program calls ---------------
Int32Schema == << <<"x", "int32">> >>
Int64Schema == << <<"x", "int64">> >>
OtherSchema == << <<"y", "int32">> >>
Schemas == {Int32Schema, Int64Schema, OtherSchema}

Names(sch) == [i \in 1..Len(sch) |-> sch[i][1]]

\* Outcomes of casting one column type to another: TRUE = the cast succeeds.
\* Widening always succeeds, narrowing succeeds or raises depending on the
\* values held, which the model leaves open.
CastTypeOutcomes(from, to) ==
    IF from = to THEN {TRUE}
    ELSE IF from = "int32" /\ to = "int64" THEN {TRUE}
    ELSE {TRUE, FALSE}

\* Outcomes of table.cast(schema): the field names must match in order,
\* then every column is cast to the target type.
CastOutcomes(from, to) ==
    IF Names(from) # Names(to) THEN {FALSE}
    ELSE IF \A i \in 1..Len(from) : CastTypeOutcomes(from[i][2], to[i][2]) = {TRUE}
         THEN {TRUE}
         ELSE {TRUE, FALSE}

\* The table a successful cast returns: same rows, the target schema.
Cast(t, sch) == [schema |-> sch, rows |-> t.rows]

RECURSIVE ConcatRows(_)
ConcatRows(ts) ==
    IF ts = <<>> THEN <<>> ELSE ts[1].rows \o ConcatRows(Tail(ts))

\* pa.concat_tables(group) raises on an empty list and on tables whose
\* schemas differ.
ConcatOK(g) ==
    /\ g # <<>>
    /\ \A i \in 1..Len(g) : g[i].schema = g[1].schema

ConcatTables(g) == [schema |-> g[1].schema, rows |-> ConcatRows(g)]

\* the default sizer, len: the number of rows of a table
sizer(t) == Len(t.rows)

\* ---- inputs --------------------------------------------------------------
SeqsUpTo(S, n) == UNION {[1..k -> S] : k \in 0..n}

RECURSIVE SumTo(_, _)
SumTo(c, k) == IF k = 0 THEN 0 ELSE c[k] + SumTo(c, k - 1)

\* a file that cannot be opened as parquet
BadFile == [ok |-> FALSE, schema |-> <<>>, sizes |-> <<>>]

\* a readable file: one schema, and the row count of each batch it yields
GoodFile(sch, z) == [ok |-> TRUE, schema |-> sch, sizes |-> z]

\* The directories of a pipeline run: up to MaxFiles files, each unreadable
\* or readable with one of the schemas; kinds[f] says which, counts[f] is the
\* number of batches of file f and z the row counts of all batches in order.
FilesOf(kinds, counts, z) ==
    [f \in 1..Len(kinds) |->
        IF kinds[f] = <<>> THEN BadFile
        ELSE GoodFile(kinds[f],
                      SubSeq(z, SumTo(counts, f - 1) + 1, SumTo(counts, f)))]

CountsOf(kinds) ==
    {c \in [1..Len(kinds) -> 0..MaxFrags] :
        /\ SumTo(c, Len(kinds)) <= MaxFrags
        /\ \A f \in 1..Len(kinds) : kinds[f] = <<>> => c[f] = 0}

DirFilesOver(fs, schemas, rows) ==
    \E kinds \in SeqsUpTo(schemas \cup {<<>>}, MaxFiles) :
        \E c \in CountsOf(kinds) :
            \E z \in [1..SumTo(c, Len(kinds)) -> rows] :
                fs = FilesOf(kinds, c, z)

\* Two families of directories are explored: files of one schema whose
\* batches have any row count from 1, and files of any schema whose batches
\* all have one row.
PickDirFiles(fs) ==
    \/ DirFilesOver(fs, {Int32Schema}, 1..MaxRows)
    \/ DirFilesOver(fs, Schemas, {1})

\* The items of a run of coalesce on its own: the batches of one readable
\* file, of any row count from 0.
PickItemFiles(fs) ==
    \E z \in SeqsUpTo(0..MaxRows, MaxItems) :
        fs = <<GoodFile(Int32Schema, z)>>

\* the table made from batch b of file f; a row is named by where it came from
Fragment(fs, f, b) ==
    [schema |-> fs[f].schema,
     rows |-> [k \in 1..fs[f].sizes[b] |-> <<f, b, k>>]]

BaseArgv == <<"indir", "*.parquet", "out.parquet">>
ArgvSet == {BaseArgv} \cup {Append(BaseArgv, ToString(m)) : m \in 1..MaxM}

VARIABLES
    files,        \* the files directory.glob(pattern) enumerates, in order
    argv,         \* the argument list given to main (<<>> when not entered through main)
    max_arg,      \* the max_size argument of the call of coalese_parquets: <<>> omitted, <<m>> given
    prev,         \* the row groups of the file a previous run wrote, when this run reads it (<<>> otherwise)
    consumer,     \* who pulls the groups: "sink" (coalese_parquets) or "list" (list(coalesce(...)))
    pc,           \* position of the thread of control
    max_size,     \* parameter max_size of coalese_parquets / coalesce (0 before the call)
    fileIdx,      \* stream_from_dir: number of paths taken from the glob
    batchIdx,     \* stream_from_parquet: number of batches taken from the reader
    srcpc,        \* stream_from_dir: "dir" between files, "file" inside one, "done"
    opened,       \* history: indexes of the files opened, in order
    pulled,       \* history: the fragments the source has yielded, in order
    item,         \* coalesce: the loop variable item (<<>> unbound, <<t>> bound)
    batch,        \* coalesce: batch
    current_size, \* coalesce: current_size
    costate,      \* coalesce generator: "new", "running", "yield58", "yield64", "done"
    yielded,      \* history: the groups coalesce has yielded, in order
    table,        \* the table handed to stream_to_parquet (<<>> none, <<t>>)
    delivered,    \* history: the tables stream_to_parquet received, in order
    sinkpc,       \* stream_to_parquet: "first" before the first table, "loop" after
    schema,       \* stream_to_parquet: schema (<<>> before line 22)
    writerOpen,   \* the ParquetWriter is open
    opens,        \* history: number of times a writer was opened
    writerSchema, \* history: schema the writer was opened with (<<>> never opened)
    written,      \* history: the tables given to writer.write_table, in order
    failure       \* history: what raised: "none", "open", "concat", "cast", "write"

vars == <<files, argv, max_arg, prev, consumer, pc, max_size, fileIdx, batchIdx, srcpc,
          opened, pulled, item, batch, current_size, costate, yielded, table,
          delivered, sinkpc, schema, writerOpen, opens, writerSchema, written,
          failure>>

srcVars == <<fileIdx, batchIdx, srcpc, opened, pulled>>
coVars == <<item, batch, current_size, costate, yielded>>
sinkVars == <<table, delivered, sinkpc, schema, writerOpen, opens, writerSchema, written>>
callVars == <<files, argv, max_arg, prev, consumer, max_size>>

\* the state in which no generator has started and nothing is open
Fresh ==
    /\ fileIdx = 0
    /\ batchIdx = 0
    /\ srcpc = "dir"
    /\ opened = <<>>
    /\ pulled = <<>>
    /\ item = <<>>
    /\ batch = <<>>
    /\ current_size = 0
    /\ costate = "new"
    /\ yielded = <<>>
    /\ table = <<>>
    /\ delivered = <<>>
    /\ sinkpc = "first"
    /\ schema = <<>>
    /\ writerOpen = FALSE
    /\ opens = 0
    /\ writerSchema = <<>>
    /\ written = <<>>
    /\ failure = "none"

\* a call of coalese_parquets, with or without max_size
Init ==
    /\ PickDirFiles(files)
    /\ argv = <<>>
    /\ max_arg \in {<<>>} \cup {<<m>> : m \in 1..MaxM}
    /\ prev = <<>>
    /\ consumer = "sink"
    /\ pc = "coalese_parquets"
    /\ max_size = 0
    /\ Fresh

\* a call of main
InitMain ==
    /\ PickDirFiles(files)
    /\ argv \in ArgvSet
    /\ max_arg = <<>>
    /\ prev = <<>>
    /\ consumer = "sink"
    /\ pc = "main"
    /\ max_size = 0
    /\ Fresh

\* list(coalesce(items, max_size)), as in the doctest of coalesce, standing
\* before the first next()
InitCoalesce ==
    /\ PickItemFiles(files)
    /\ argv = <<>>
    /\ \E m \in 1..MaxM : max_arg = <<m>> /\ max_size = m
    /\ prev = <<>>
    /\ consumer = "list"
    /\ pc = "next"
    /\ Fresh

\* ---- main and coalese_parquets ------------------------------------------
\* the max_size argument main passes on: none
MainMaxArg(av) == <<>>

Main ==
    /\ pc = "main"
    /\ max_arg' = MainMaxArg(argv)
    /\ pc' = "coalese_parquets"
    /\ UNCHANGED <<files, argv, prev, consumer, max_size, srcVars, coVars, sinkVars, failure>>

\* binds max_size and builds the (not yet started) generators, then calls
\* stream_to_parquet, which stands before next(tables)
CoaleseParquets ==
    /\ pc = "coalese_parquets"
    /\ max_size' = IF max_arg = <<>> THEN DefaultMaxSize ELSE max_arg[1]
    /\ pc' = "next"
    /\ UNCHANGED <<files, argv, max_arg, prev, consumer, srcVars, coVars, sinkVars, failure>>

\* ---- coalesce -------------------------------------------------------------
\* variants of Exceeds with a wrong comparison
Exceeds_BeforeAdding(cs, ts, m) == cs > m
Exceeds_UnlessOversized(cs, ts, m) == ts <= m /\ cs + ts > m
Exceeds_OrEqual(cs, ts, m) == cs + ts >= m

\* line 57: the running group is closed when the item does not fit
Exceeds(cs, ts, m) == cs + ts > m

\* variant of FinalYield that forgets the last group
FinalYield_Never(b) == FALSE

\* variant of BatchAfterYield that forgets the pending item
BatchAfterYield_Drops(it) == <<>>

\* lines 59-62, run when the generator is resumed after the yield of line 58:
\* the batch is rebound to a fresh list holding the pending item
BatchAfterYield(it) == <<it>>

\* line 63: the final group is yielded only when it holds something
FinalYield(b) == b # <<>>

\* first next() on the generators: stream_to_parquet line 19 pulls the
\* generator expression, which pulls coalesce, which runs lines 53-54
CoStart ==
    /\ pc = "next"
    /\ costate = "new"
    /\ batch' = <<>>
    /\ current_size' = 0
    /\ costate' = "running"
    /\ pc' = "co_for"
    /\ UNCHANGED <<callVars, srcVars, item, yielded, sinkVars, failure>>

\* variant of CoResume58 that does not reset the running size
CoResume58_KeepsSize ==
    /\ pc = "next"
    /\ costate = "yield58"
    /\ batch' = BatchAfterYield(item[1])
    /\ current_size' = current_size + sizer(item[1])
    /\ costate' = "running"
    /\ pc' = "co_for"
    /\ UNCHANGED <<callVars, srcVars, item, yielded, sinkVars, failure>>

\* next() while coalesce is suspended at line 58: lines 59-62
CoResume58 ==
    /\ pc = "next"
    /\ costate = "yield58"
    /\ batch' = BatchAfterYield(item[1])
    /\ current_size' = sizer(item[1])
    /\ costate' = "running"
    /\ pc' = "co_for"
    /\ UNCHANGED <<callVars, srcVars, item, yielded, sinkVars, failure>>

\* next() while coalesce is suspended at line 64: the generator returns and
\* StopIteration reaches stream_to_parquet
CoResume64 ==
    /\ pc = "next"
    /\ costate = "yield64"
    /\ costate' = "done"
    /\ pc' = "stop"
    /\ UNCHANGED <<callVars, srcVars, item, batch, current_size, yielded, sinkVars, failure>>

\* lines 56-58 and 61-62: the body of the loop for one item
CoItem ==
    /\ pc = "co_item"
    /\ IF Exceeds(current_size, sizer(item[1]), max_size)
       THEN /\ yielded' = Append(yielded, batch)
            /\ costate' = "yield58"
            /\ pc' = "group"
            /\ UNCHANGED <<batch, current_size>>
       ELSE /\ batch' = Append(batch, item[1])
            /\ current_size' = current_size + sizer(item[1])
            /\ pc' = "co_for"
            /\ UNCHANGED <<yielded, costate>>
    /\ UNCHANGED <<callVars, srcVars, item, sinkVars, failure>>

\* lines 63-64: the input is exhausted
CoEnd ==
    /\ pc = "co_end"
    /\ IF FinalYield(batch)
       THEN /\ yielded' = Append(yielded, batch)
            /\ costate' = "yield64"
            /\ pc' = "group"
       ELSE /\ costate' = "done"
            /\ pc' = "stop"
            /\ UNCHANGED yielded
    /\ UNCHANGED <<callVars, srcVars, item, batch, current_size, sinkVars, failure>>

\* ---- stream_from_dir and stream_from_parquet --------------------------------
\* variant of DirNext that skips a file it cannot open
DirNext_SkipsBadFile ==
    /\ pc = "co_for"
    /\ srcpc = "dir"
    /\ fileIdx < Len(files)
    /\ fileIdx' = fileIdx + 1
    /\ opened' = Append(opened, fileIdx + 1)
    /\ batchIdx' = 0
    /\ srcpc' = IF files[fileIdx + 1].ok THEN "file" ELSE "dir"
    /\ UNCHANGED <<callVars, pc, pulled, coVars, sinkVars, failure>>

\* line 69 takes the next path, line 70 starts stream_from_parquet on it and
\* line 31 opens the file; a file that is not parquet raises
DirNext ==
    /\ pc = "co_for"
    /\ srcpc = "dir"
    /\ fileIdx < Len(files)
    /\ fileIdx' = fileIdx + 1
    /\ opened' = Append(opened, fileIdx + 1)
    /\ batchIdx' = 0
    /\ IF files[fileIdx + 1].ok
       THEN /\ srcpc' = "file"
            /\ UNCHANGED <<pc, failure>>
       ELSE /\ failure' = "open"
            /\ pc' = "raise"
            /\ UNCHANGED srcpc
    /\ UNCHANGED <<callVars, pulled, coVars, sinkVars>>

\* line 69: the glob is exhausted, stream_from_dir returns and the for loop
\* of coalesce ends
DirStop ==
    /\ pc = "co_for"
    /\ srcpc = "dir"
    /\ fileIdx = Len(files)
    /\ srcpc' = "done"
    /\ pc' = "co_end"
    /\ UNCHANGED <<callVars, fileIdx, batchIdx, opened, pulled, coVars, sinkVars, failure>>

\* lines 32-33: the reader yields its next batch, as a table, to coalesce
PqNext ==
    /\ pc = "co_for"
    /\ srcpc = "file"
    /\ batchIdx < Len(files[fileIdx].sizes)
    /\ batchIdx' = batchIdx + 1
    /\ item' = <<Fragment(files, fileIdx, batchIdx + 1)>>
    /\ pulled' = Append(pulled, Fragment(files, fileIdx, batchIdx + 1))
    /\ pc' = "co_item"
    /\ UNCHANGED <<callVars, fileIdx, srcpc, opened, batch, current_size, costate,
                   yielded, sinkVars, failure>>

\* line 32: the reader is exhausted, stream_from_dir goes on to the next path
PqStop ==
    /\ pc = "co_for"
    /\ srcpc = "file"
    /\ batchIdx = Len(files[fileIdx].sizes)
    /\ srcpc' = "dir"
    /\ UNCHANGED <<callVars, pc, fileIdx, batchIdx, opened, pulled, coVars, sinkVars, failure>>

\* ---- the generator expression of line 79 -------------------------------------
Concat ==
    /\ pc = "group"
    /\ consumer = "sink"
    /\ IF ConcatOK(batch)
       THEN /\ table' = <<ConcatTables(batch)>>
            /\ delivered' = Append(delivered, ConcatTables(batch))
            /\ pc' = "stp_got"
            /\ UNCHANGED failure
       ELSE /\ failure' = "concat"
            /\ pc' = "raise"
            /\ UNCHANGED <<table, delivered>>
    /\ UNCHANGED <<callVars, srcVars, coVars, sinkpc, schema, writerOpen, opens,
                   writerSchema, written>>

\* ---- stream_to_parquet ---------------------------------------------------------
\* Outcomes of writer.write_table: TRUE = the row group is written, FALSE =
\* the write raises (an I/O error).
WriteOutcomes == {TRUE, FALSE}

\* variant of Enforced that writes the table as it came
Enforced_NoCast(t, sch) == t

\* line 26: what is written for a later table
Enforced(t, sch) == Cast(t, sch)

\* variant of StpFirst that keeps the first table back instead of writing it
StpFirst_KeepsBack ==
    /\ pc = "stp_got"
    /\ sinkpc = "first"
    /\ schema' = table[1].schema
    /\ writerOpen' = TRUE
    /\ opens' = opens + 1
    /\ writerSchema' = table[1].schema
    /\ sinkpc' = "loop"
    /\ pc' = "next"
    /\ UNCHANGED <<callVars, srcVars, coVars, table, delivered, written, failure>>

\* lines 22-24: the first table fixes the schema, the writer is opened with
\* it and the table is written, unless the write raises
StpFirst ==
    /\ pc = "stp_got"
    /\ sinkpc = "first"
    /\ schema' = table[1].schema
    /\ writerOpen' = TRUE
    /\ opens' = opens + 1
    /\ writerSchema' = table[1].schema
    /\ sinkpc' = "loop"
    /\ \E wrote \in WriteOutcomes :
          IF wrote
          THEN /\ written' = Append(written, table[1])
               /\ pc' = "next"
               /\ UNCHANGED failure
          ELSE /\ failure' = "write"
               /\ pc' = "raise"
               /\ UNCHANGED written
    /\ UNCHANGED <<callVars, srcVars, coVars, table, delivered>>

\* variant of StpLoop that swallows the cast error and goes on
StpLoop_SkipsBadTable ==
    /\ pc = "stp_got"
    /\ sinkpc = "loop"
    /\ \E ok \in CastOutcomes(table[1].schema, schema) :
          IF ok
          THEN \E wrote \in WriteOutcomes :
                  IF wrote
                  THEN /\ written' = Append(written, Enforced(table[1], schema))
                       /\ pc' = "next"
                       /\ UNCHANGED failure
                  ELSE /\ failure' = "write"
                       /\ pc' = "raise"
                       /\ UNCHANGED written
          ELSE /\ failure' = "cast"
               /\ pc' = "next"
               /\ UNCHANGED written
    /\ UNCHANGED <<callVars, srcVars, coVars, table, delivered, sinkpc, schema,
                   writerOpen, opens, writerSchema>>

\* lines 26-27: a later table is cast to the schema and written; the cast
\* or the write may raise
StpLoop ==
    /\ pc = "stp_got"
    /\ sinkpc = "loop"
    /\ \E ok \in CastOutcomes(table[1].schema, schema) :
          IF ok
          THEN \E wrote \in WriteOutcomes :
                  IF wrote
                  THEN /\ written' = Append(written, Enforced(table[1], schema))
                       /\ pc' = "next"
                       /\ UNCHANGED failure
                  ELSE /\ failure' = "write"
                       /\ pc' = "raise"
                       /\ UNCHANGED written
          ELSE /\ failure' = "cast"
               /\ pc' = "raise"
               /\ UNCHANGED written
    /\ UNCHANGED <<callVars, srcVars, coVars, table, delivered, sinkpc, schema,
                   writerOpen, opens, writerSchema>>

\* variant of StpEmpty that opens a writer although there is no table
StpEmpty_CreatesFile ==
    /\ pc = "stop"
    /\ consumer = "sink"
    /\ sinkpc = "first"
    /\ opens' = opens + 1
    /\ pc' = "done"
    /\ UNCHANGED <<callVars, srcVars, coVars, table, delivered, sinkpc, schema,
                   writerOpen, writerSchema, written, failure>>

\* lines 20-21: StopIteration on the first next(): return, nothing opened
StpEmpty ==
    /\ pc = "stop"
    /\ consumer = "sink"
    /\ sinkpc = "first"
    /\ pc' = "done"
    /\ UNCHANGED <<callVars, srcVars, coVars, sinkVars, failure>>

\* line 25 ends on StopIteration, the with block of line 23 closes the writer
StpClose ==
    /\ pc = "stop"
    /\ consumer = "sink"
    /\ sinkpc = "loop"
    /\ writerOpen' = FALSE
    /\ pc' = "done"
    /\ UNCHANGED <<callVars, srcVars, coVars, table, delivered, sinkpc, schema,
                   opens, writerSchema, written, failure>>

\* variant of Raise without the with block: the writer is left as it is
Raise_LeavesOpen ==
    /\ pc = "raise"
    /\ pc' = "error"
    /\ UNCHANGED <<callVars, srcVars, coVars, sinkVars, failure>>

\* an exception unwinds out of stream_to_parquet: the with block of line 23,
\* when entered, closes the writer; nothing catches the exception
Raise ==
    /\ pc = "raise"
    /\ writerOpen' = FALSE
    /\ pc' = "error"
    /\ UNCHANGED <<callVars, srcVars, coVars, table, delivered, sinkpc, schema,
                   opens, writerSchema, written, failure>>

\* ---- list(coalesce(...)) --------------------------------------------------------
\* list() takes the yielded group and calls next() again
ListAppend ==
    /\ pc = "group"
    /\ consumer = "list"
    /\ pc' = "next"
    /\ UNCHANGED <<callVars, srcVars, coVars, sinkVars, failure>>

\* list() ends on StopIteration
ListDone ==
    /\ pc = "stop"
    /\ consumer = "list"
    /\ pc' = "done"
    /\ UNCHANGED <<callVars, srcVars, coVars, sinkVars, failure>>

\* ---- a second run on the output of the first ------------------------------------
\* the file a completed run wrote, as the source reads it back: one batch
\* per row group, under the schema of the writer
OutputFile(sch, tables) ==
    GoodFile(sch, [i \in 1..Len(tables) |-> Len(tables[i].rows)])

\* coalese_parquets is called again, with the same max_size, on a directory
\* holding the output file of the run that has just completed
Rerun ==
    /\ pc = "done"
    /\ consumer = "sink"
    /\ prev = <<>>
    /\ written # <<>>
    /\ prev' = written
    /\ files' = <<OutputFile(writerSchema, written)>>
    /\ pc' = "coalese_parquets"
    /\ max_size' = 0
    /\ fileIdx' = 0
    /\ batchIdx' = 0
    /\ srcpc' = "dir"
    /\ opened' = <<>>
    /\ pulled' = <<>>
    /\ item' = <<>>
    /\ batch' = <<>>
    /\ current_size' = 0
    /\ costate' = "new"
    /\ yielded' = <<>>
    /\ table' = <<>>
    /\ delivered' = <<>>
    /\ sinkpc' = "first"
    /\ schema' = <<>>
    /\ opens' = 0
    /\ writerSchema' = <<>>
    /\ written' = <<>>
    /\ UNCHANGED <<argv, max_arg, consumer, writerOpen, failure>>

\* ---- specifications ------------------------------------------------------------
\* the steps of coalesce and of the source it pulls from
Generators ==
    \/ CoStart
    \/ CoResume58
    \/ CoResume64
    \/ CoItem
    \/ CoEnd
    \/ DirNext
    \/ DirStop
    \/ PqNext
    \/ PqStop

\* a run of coalese_parquets
Next ==
    \/ CoaleseParquets
    \/ Generators
    \/ Concat
    \/ StpFirst
    \/ StpLoop
    \/ StpEmpty
    \/ StpClose
    \/ Raise

Spec == Init /\ [][Next]_vars

\* main, up to the call of coalese_parquets having bound max_size; from
\* there the run is a run of Spec
NextMain ==
    \/ Main
    \/ CoaleseParquets

SpecMain == InitMain /\ [][NextMain]_vars

\* a run of coalese_parquets and, when it completed and wrote a file, a
\* second run on that file
NextRerun ==
    \/ Next
    \/ Rerun

SpecRerun == Init /\ [][NextRerun]_vars

\* coalesce on its own, every group being taken by list()
NextCoalesce ==
    \/ Generators
    \/ ListAppend
    \/ ListDone

SpecCoalesce == InitCoalesce /\ [][NextCoalesce]_vars

\* ---- helpers of the properties ------------------------------------------------
RECURSIVE Flatten(_)
Flatten(gs) ==
    IF gs = <<>> THEN <<>> ELSE gs[1] \o Flatten(Tail(gs))

RECURSIVE SumSizes(_)
SumSizes(g) ==
    IF g = <<>> THEN 0 ELSE sizer(g[1]) + SumSizes(Tail(g))

IsPrefix(s, t) ==
    /\ Len(s) <= Len(t)
    /\ \A i \in 1..Len(s) : s[i] = t[i]

RECURSIVE FragmentsFrom(_, _)
FragmentsFrom(fs, f) ==
    IF f > Len(fs) THEN <<>>
    ELSE [b \in 1..Len(fs[f].sizes) |-> Fragment(fs, f, b)] \o FragmentsFrom(fs, f + 1)

\* every fragment of every file, in enumeration order: the input stream
AllFragments(fs) == FragmentsFrom(fs, 1)

AllGood(fs) == \A f \in 1..Len(fs) : fs[f].ok
SameSchema(fs) == \A f, g \in 1..Len(fs) : fs[f].schema = fs[g].schema
NoFragments(fs) == AllGood(fs) /\ AllFragments(fs) = <<>>

IntOf(str) == CHOOSE m \in 1..MaxM : ToString(m) = str

\* ---- C1 ------------------------------------------------------------------------
\* C1: the groups coalesce has yielded, flattened in emission order, are
\* always a prefix of the items it has consumed, and once the generator has
\* finished they equal the whole input stream: nothing lost, duplicated or
\* reordered.
C1_FlattenEqualsInput ==
    /\ IsPrefix(Flatten(yielded), pulled)
    /\ costate \in {"yield64", "done"} =>
          /\ Flatten(yielded) = pulled
          /\ pulled = AllFragments(files)

C1_Witness ==
    /\ costate = "done"
    /\ Len(yielded) >= 2
    /\ Len(pulled) >= 3
    /\ \E i \in 1..Len(yielded) : Len(yielded[i]) >= 2

\* ---- C2 ------------------------------------------------------------------------
\* C2: coalesce never yields an empty group.
C2_NoEmptyGroup ==
    \A i \in 1..Len(yielded) : yielded[i] # <<>>

\* ---- C3 ------------------------------------------------------------------------
\* C3: every yielded group has total size <= max_size, unless it consists of
\* exactly one item whose own size is > max_size.
C3_GroupWithinBudget ==
    \A i \in 1..Len(yielded) :
        \/ SumSizes(yielded[i]) <= max_size
        \/ Len(yielded[i]) = 1 /\ sizer(yielded[i][1]) > max_size

C3_Witness ==
    /\ \E i \in 1..Len(yielded) :
          Len(yielded[i]) >= 2 /\ SumSizes(yielded[i]) = max_size
    /\ \E i \in 1..Len(yielded) :
          Len(yielded[i]) = 1 /\ sizer(yielded[i][1]) > max_size

\* ---- C4 ------------------------------------------------------------------------
\* C4: an item larger than max_size is never in a group (yielded or running)
\* with another item, and once coalesce has finished every such item has been
\* yielded as a group of its own.
C4_OversizedAlone ==
    /\ \A i \in 1..Len(yielded) : \A j \in 1..Len(yielded[i]) :
          sizer(yielded[i][j]) > max_size => Len(yielded[i]) = 1
    /\ costate = "running" =>
          \A j \in 1..Len(batch) : sizer(batch[j]) > max_size => Len(batch) = 1
    /\ costate = "done" =>
          \A k \in 1..Len(pulled) :
              sizer(pulled[k]) > max_size =>
                  \E i \in 1..Len(yielded) : yielded[i] = <<pulled[k]>>

C4_Witness ==
    /\ costate = "done"
    /\ \E k \in 2..(Len(pulled) - 1) :
          /\ sizer(pulled[k]) > max_size
          /\ sizer(pulled[k - 1]) = 0
          /\ sizer(pulled[k + 1]) = 0
          /\ \E i \in 1..Len(yielded) : yielded[i] = <<pulled[k]>>

\* ---- C5 ------------------------------------------------------------------------
\* C5: greedy-maximal: for two consecutive yielded groups, the later one has a
\* first item, and the total of the earlier one plus the size of that item
\* is > max_size.
C5_GreedyMaximal ==
    \A i \in 1..(Len(yielded) - 1) :
        /\ yielded[i + 1] # <<>>
        /\ SumSizes(yielded[i]) + sizer(yielded[i + 1][1]) > max_size

C5_Witness ==
    /\ costate = "done"
    /\ Len(yielded) >= 3
    /\ yielded[1] # <<>>
    /\ \E i \in 1..(Len(yielded) - 1) : Len(yielded[i]) >= 2

\* ---- C6 ------------------------------------------------------------------------
\* C6: end to end, on readable files of one schema and max_size > 0, and
\* the disk taking every write, the run never fails, and when it is done it
\* has written one table per yielded group and the written rows are the
\* input rows in order.
C6_EndToEnd ==
    (AllGood(files) /\ SameSchema(files) /\ max_size > 0 /\ failure # "write") =>
        /\ pc \notin {"raise", "error"}
        /\ pc = "done" =>
              /\ Len(written) = Len(yielded)
              /\ ConcatRows(written) = ConcatRows(AllFragments(files))

\* ---- C7 ------------------------------------------------------------------------
\* C7: when the source yields no fragment (no file, or only readable files
\* without batches) the run does not fail, it can only stop in "done", and
\* the writer is never opened and nothing is written.
C7_EmptyInputNoOutput ==
    NoFragments(files) =>
        /\ pc \notin {"raise", "error"}
        /\ (~ ENABLED Next) => pc = "done"
        /\ opens = 0
        /\ ~ writerOpen
        /\ writerSchema = <<>>
        /\ written = <<>>

C7_Witness ==
    /\ NoFragments(files)
    /\ Len(files) >= 1
    /\ pc = "done"

\* ---- C8 ------------------------------------------------------------------------
\* C8: when stream_to_parquet has completed normally on n >= 1 tables, the
\* writer was opened once, with the schema of the first table, and got n
\* writes: the first table as it came, every later one with its own rows
\* under the schema of the first.
C8_OneWriterAllTables ==
    (pc = "done" /\ delivered # <<>>) =>
        /\ opens = 1
        /\ writerSchema = delivered[1].schema
        /\ Len(written) = Len(delivered)
        /\ written[1] = delivered[1]
        /\ \A i \in 2..Len(delivered) :
              /\ written[i].rows = delivered[i].rows
              /\ written[i].schema = delivered[1].schema

C8_Witness ==
    /\ pc = "done"
    /\ Len(delivered) >= 2
    /\ \E i \in 2..Len(delivered) : delivered[i].schema # delivered[1].schema

\* ---- C9 ------------------------------------------------------------------------
\* what coalesce had consumed when it yielded its latest group
PulledAtYield ==
    Flatten(yielded) \o (IF costate = "yield58" THEN item ELSE <<>>)

\* C9: when the cast of the k-th table (k >= 2) to the schema fixed by the
\* first has failed, the run is aborting or aborted, exactly the k-1 tables
\* before it have been written, and nothing was pulled from the source,
\* yielded or handed to the sink after that table; a table whose names do
\* not match the fixed schema always fails so.
C9_CastFailureAborts ==
    /\ failure = "cast" =>
          /\ pc \in {"raise", "error"}
          /\ Len(delivered) >= 2
          /\ Len(written) = Len(delivered) - 1
          /\ \A i \in 1..Len(written) : written[i].rows = delivered[i].rows
          /\ Len(yielded) = Len(delivered)
          /\ pulled = PulledAtYield
    /\ \A k \in 2..Len(delivered) :
          (/\ CastOutcomes(delivered[k].schema, writerSchema) = {FALSE}
           /\ ~ (k = Len(delivered) /\ pc = "stp_got")) =>
              /\ failure = "cast"
              /\ k = Len(delivered)

\* the abort left a pending item behind: a later table would have come
C9_Witness ==
    /\ failure = "cast"
    /\ pc = "error"
    /\ Len(written) >= 1
    /\ costate = "yield58"

\* ---- C10 -----------------------------------------------------------------------
\* C10: entered through main, coalescing runs with the maximum group size
\* given after the three positional parameters, and with the default 2**20
\* when none is given.
C10_MaxSizeHonoured ==
    (argv # <<>> /\ pc \notin {"main", "coalese_parquets"}) =>
        max_size = IF Len(argv) > 3 THEN IntOf(argv[4]) ELSE DefaultMaxSize

\* ---- C11 -----------------------------------------------------------------------
\* C11: the writer is a scoped resource: it is opened at most once, it is
\* open only inside stream_to_parquet after the first table arrived, and
\* when the call has returned ("done") or the error has propagated ("error")
\* it is closed, whatever ended the run: the end of the input, an empty
\* input, a cast or write error, or an error of the source or of the
\* concatenation while the writer was open.
C11_WriterScoped ==
    /\ opens <= 1
    /\ writerOpen => (opens = 1 /\ sinkpc = "loop")
    /\ pc \in {"done", "error"} => ~ writerOpen
    /\ (pc = "done" /\ sinkpc = "first") => opens = 0

\* the source raised (a file that is not parquet) while the writer was open,
\* and the error has propagated
C11_Witness ==
    /\ pc = "error"
    /\ failure = "open"
    /\ opens = 1
    /\ written # <<>>

\* ---- C12 -----------------------------------------------------------------------
\* the rows of the first run's output that the rows of the second run are:
\* row k of batch b of the output file is row k of row group b
StoredRows(rows) == [i \in 1..Len(rows) |-> prev[rows[i][2]].rows[rows[i][3]]]

\* C12: in a second run with the same max_size on the output of a completed
\* first run, nothing but a failing write raises, the run can only stop
\* completed, and when it is done the rows it wrote are the rows the first
\* run wrote, in the same order.
C12_Idempotent ==
    prev # <<>> =>
        /\ failure # "write" => pc \notin {"raise", "error"}
        /\ (~ ENABLED NextRerun) => (pc = "done" \/ failure = "write")
        /\ pc = "done" =>
              /\ written # <<>>
              /\ StoredRows(ConcatRows(written)) = ConcatRows(prev)

C12_Witness ==
    /\ prev # <<>>
    /\ pc = "done"
    /\ Len(prev) >= 2
    /\ \E i \in 1..Len(prev) : Len(prev[i].rows) >= 2
    /\ max_size <= MaxM

\* ---- C13 -----------------------------------------------------------------------
RECURSIVE FragmentsUpTo(_, _)
\* the fragments of files 1..f, in order
FragmentsUpTo(fs, f) ==
    IF f = 0 THEN <<>>
    ELSE FragmentsUpTo(fs, f - 1)
            \o [b \in 1..Len(fs[f].sizes) |-> Fragment(fs, f, b)]

\* C13: the files are opened one at a time, in order and once each, a file
\* only when every fragment of the files before it has been pulled; and
\* when a file fails to open the run aborts there: the failure is the
\* latest open, no unreadable file was passed over, and no fragment of a
\* later file has been pulled or written.
C13_OpenFailureAborts ==
    /\ opened = [i \in 1..fileIdx |-> i]
    /\ fileIdx >= 1 =>
          pulled = FragmentsUpTo(files, fileIdx - 1)
                      \o [b \in 1..batchIdx |-> Fragment(files, fileIdx, b)]
    /\ \A f \in 1..fileIdx :
          ~ files[f].ok =>
              /\ f = fileIdx
              /\ failure = "open"
              /\ pc \in {"raise", "error"}
              /\ \A i \in 1..Len(written) : \A k \in 1..Len(written[i].rows) :
                    written[i].rows[k][1] < f
    /\ failure = "open" => ~ files[fileIdx].ok

\* a file failed to open, the error has propagated, and a later file with
\* fragments was left unread
C13_Witness ==
    /\ pc = "error"
    /\ failure = "open"
    /\ fileIdx < Len(files)
    /\ files[Len(files)].sizes # <<>>

\* ---- C14 -----------------------------------------------------------------------
\* the fragments of the groups already written
WrittenFragments == Flatten(SubSeq(yielded, 1, Len(written)))

\* the one group in progress: the yielded group not yet written, or else the
\* running batch
GroupInProgress ==
    IF Len(yielded) > Len(written) THEN yielded[Len(yielded)]
    ELSE IF costate = "running" THEN batch
    ELSE <<>>

\* C14: the pipeline pulls with bounded look-ahead: at most one yielded
\* group is not yet written, every yielded group has been written whenever
\* coalesce runs or asks the source for a fragment, the written tables are
\* the first groups in order, and the fragments pulled and not yet written
\* are at most those of the one group in progress plus one pending fragment.
C14_BoundedLookAhead ==
    /\ Len(written) <= Len(yielded)
    /\ Len(yielded) <= Len(written) + 1
    /\ pc \in {"co_for", "co_item", "co_end"} => Len(written) = Len(yielded)
    /\ ConcatRows(written) = ConcatRows(WrittenFragments)
    /\ IsPrefix(WrittenFragments, pulled)
    /\ Len(pulled) - Len(WrittenFragments) <= Len(GroupInProgress) + 1

\* two groups have been written one after the other, and the only fragment
\* pulled beyond them is the pending one
C14_Witness ==
    /\ Len(written) >= 2
    /\ costate = "yield58"
    /\ pc = "next"
    /\ Len(pulled) = Len(WrittenFragments) + 1

\* ---- C15 -----------------------------------------------------------------------
\* coalesce is about to handle an item while the running group holds one
\* item, of size exactly max_size
FullSingletonRunning ==
    /\ pc = "co_item"
    /\ Len(batch) = 1
    /\ sizer(batch[1]) = max_size

\* this step yields the running group as it is
YieldsRunningGroup ==
    /\ yielded' = Append(yielded, batch)
    /\ costate' = "yield58"
    /\ batch' = batch

\* C15 as claimed: an item of size exactly max_size that is alone in the
\* running group is yielded as a singleton when the next item arrives,
\* whatever the size of that item, 0 included.
C15_AnyNextItemCloses ==
    [][FullSingletonRunning => YieldsRunningGroup]_vars

\* C15 as amended: it is yielded as a singleton when the next item arrives
\* if that item has a size > 0; an item of size 0 still fits and joins it.
C15_PositiveNextItemCloses ==
    [][FullSingletonRunning =>
          IF sizer(item[1]) > 0
          THEN YieldsRunningGroup
          ELSE batch' = Append(batch, item[1]) /\ yielded' = yielded]_vars

\* the singleton of size max_size has just been yielded on the arrival of an
\* item of positive size
C15_Witness ==
    /\ pc = "group"
    /\ costate = "yield58"
    /\ Len(batch) = 1
    /\ sizer(batch[1]) = max_size
    /\ sizer(item[1]) > 0
    /\ yielded[Len(yielded)] = batch

\* ---- C16 -----------------------------------------------------------------------
\* the running size is the sum of the sizes of the running group, and the
\* closed groups followed by the running group are the items pulled so far
Accumulated ==
    /\ current_size = SumSizes(batch)
    /\ Flatten(yielded) \o batch = pulled

\* coalesce resumes after an emission: the running group restarts from empty
\* with the triggering item, the running size from 0 with its size
ResetAfterEmission ==
    (costate \in {"yield58", "yield64"} /\ costate' # costate) =>
        IF costate = "yield58"
        THEN /\ costate' = "running"
             /\ batch' = <<>> \o <<item[1]>>
             /\ current_size' = 0 + sizer(item[1])
        ELSE costate' = "done"

\* the closed groups stay as they are; a step closes at most one group, the
\* running one, and only a resumption leaves the suspended state
ClosedGroupsKept ==
    /\ IsPrefix(yielded, yielded')
    /\ Len(yielded') <= Len(yielded) + 1
    /\ yielded' # yielded =>
          /\ costate = "running"
          /\ costate' \in {"yield58", "yield64"}
          /\ yielded' = Append(yielded, batch)

\* C16: each time coalesce is about to pull the next item the running size is
\* the sum of the sizes of the items of the running group; after an emission
\* the group and the size restart from empty and 0 with the triggering item;
\* a closed group is never modified nor emitted again.
C16_AccumulatorInvariant ==
    /\ [](pc = "co_for" => Accumulated)
    /\ [][ResetAfterEmission /\ ClosedGroupsKept]_vars

\* coalesce is about to pull the next item after it has resumed from an
\* emission of a group of two items, the running group holding the triggering
\* item and one more
C16_Witness ==
    /\ pc = "co_for"
    /\ costate = "running"
    /\ \E g \in 1..Len(yielded) : Len(yielded[g]) >= 2
    /\ Len(batch) >= 2
    /\ current_size > 0

====
